---- MODULE Spec2Model ----
(***************************************************************************)
(* The Good Tracker (src/main.ts): an Obsidian plugin that keeps a list of *)
(* habits and a list of (habitId, date) completion entries, saves the      *)
(* whole settings object after every mutation, and renders a month grid    *)
(* and a monthly summary.                                                  *)
(*                                                                         *)
(* Strings are sequences of one-character strings, so that trim(),         *)
(* padStart(), toString() and the relational operators on strings are      *)
(* modelled by what they do.  A Date is its time value counted in days     *)
(* since 1970-01-01 (local time; the time of day plays no role in the      *)
(* code), read back through the ECMAScript day-number functions.           *)
(***************************************************************************)
EXTENDS Integers, Sequences, FiniteSets

(***************************************************************************)
(* Bounds of the model.                                                    *)
(***************************************************************************)
FirstYear == 2023
NumYears == 3
MaxClock == 2
MaxHabits == 2
MaxEntries == 2
MaxInflight == 2

(***************************************************************************)
(* Strings.                                                                *)
(***************************************************************************)
Digits == <<"0", "1", "2", "3", "4", "5", "6", "7", "8", "9">>

\* UTF-16 code unit of the characters the model uses.
CharCode(c) ==
    CASE c = " " -> 32
      [] c = "#" -> 35
      [] c = "-" -> 45
      [] c = "a" -> 97
      [] c = "b" -> 98
      [] OTHER -> 48 + (CHOOSE i \in 0..9 : Digits[i + 1] = c)

\* Number.prototype.toString() / String(n) of a non-negative integer.
RECURSIVE NumToString(_)
NumToString(n) ==
    IF n < 10 THEN <<Digits[n + 1]>>
    ELSE Append(NumToString(n \div 10), Digits[(n % 10) + 1])

\* String.prototype.padStart(targetLength, padString) with a one-character pad.
RECURSIVE PadStart(_, _, _)
PadStart(s, targetLength, pad) ==
    IF Len(s) >= targetLength THEN s
    ELSE PadStart(<<pad>> \o s, targetLength, pad)

IsWhiteSpace(c) == c = " "

\* String.prototype.trim().
RECURSIVE TrimStart(_)
TrimStart(s) ==
    IF s # <<>> /\ IsWhiteSpace(Head(s)) THEN TrimStart(Tail(s)) ELSE s

RECURSIVE TrimEnd(_)
TrimEnd(s) ==
    IF s # <<>> /\ IsWhiteSpace(s[Len(s)]) THEN TrimEnd(SubSeq(s, 1, Len(s) - 1))
    ELSE s

\* The value as typed: what Save would read without trim().
NoTrim(s) == s

Trim(s) == TrimEnd(TrimStart(s))

\* The relational operators on two strings: code units compared left to
\* right, a proper prefix is smaller.
RECURSIVE StrLess(_, _)
StrLess(a, b) ==
    IF b = <<>> THEN FALSE
    ELSE IF a = <<>> THEN TRUE
    ELSE IF CharCode(Head(a)) < CharCode(Head(b)) THEN TRUE
    ELSE IF CharCode(Head(a)) > CharCode(Head(b)) THEN FALSE
    ELSE StrLess(Tail(a), Tail(b))

StrLeq(a, b) == ~StrLess(b, a)

StrGeq(a, b) == ~StrLess(a, b)

(***************************************************************************)
(* Date: ECMAScript day-number arithmetic.                                 *)
(***************************************************************************)
DaysInYear(y) ==
    IF y % 4 # 0 THEN 365
    ELSE IF y % 100 # 0 THEN 366
    ELSE IF y % 400 # 0 THEN 365
    ELSE 366

InLeapYear(y) == IF DaysInYear(y) = 366 THEN 1 ELSE 0

DayFromYear(y) ==
    365 * (y - 1970) + ((y - 1969) \div 4) - ((y - 1901) \div 100)
        + ((y - 1601) \div 400)

\* Day within the year on which month m (0..11) starts.
MonthStartDay(m, leap) ==
    CASE m = 0 -> 0
      [] m = 1 -> 31
      [] m = 2 -> 59 + leap
      [] m = 3 -> 90 + leap
      [] m = 4 -> 120 + leap
      [] m = 5 -> 151 + leap
      [] m = 6 -> 181 + leap
      [] m = 7 -> 212 + leap
      [] m = 8 -> 243 + leap
      [] m = 9 -> 273 + leap
      [] m = 10 -> 304 + leap
      [] m = 11 -> 334 + leap

\* new Date(year, month, date): MakeDay; month and date may lie outside
\* their ranges and carry over.
MakeDate(year, month, date) ==
    LET ym == year + (month \div 12)
        mn == month % 12
    IN  DayFromYear(ym) + MonthStartDay(mn, InLeapYear(ym)) + date - 1

GetFullYear(t) ==
    CHOOSE y \in (FirstYear - 2) .. (FirstYear + NumYears + 1) :
        DayFromYear(y) <= t /\ t < DayFromYear(y + 1)

DayWithinYear(t) == t - DayFromYear(GetFullYear(t))

GetMonth(t) ==
    LET leap == InLeapYear(GetFullYear(t))
        d == DayWithinYear(t)
    IN  CHOOSE m \in 0..11 :
            /\ MonthStartDay(m, leap) <= d
            /\ (m = 11 \/ d < MonthStartDay(m + 1, leap))

GetDate(t) ==
    DayWithinYear(t) - MonthStartDay(GetMonth(t), InLeapYear(GetFullYear(t))) + 1

\* A Monday-first weekday index.
GetDayMondayFirst(t) == (t + 3) % 7

\* Date.prototype.getDay(): 0 = Sunday; 1970-01-01 was a Thursday.
GetDay(t) == (t + 4) % 7

\* Date.prototype.setMonth(month): the day of the month is kept and
\* carries over when the target month is shorter.
SetMonth(t, month) == MakeDate(GetFullYear(t), month, GetDate(t))

(***************************************************************************)
(* State.                                                                  *)
(***************************************************************************)
VARIABLES
    now,          \* the clock: the last value Date.now() returned, in milliseconds
    heap,         \* the Habit objects ever created; a reference is an index
    habits,       \* plugin.settings.habits: references, in display order
    entries,      \* plugin.settings.entries: [habitId, date] records
    persisted,    \* the data the host storage holds
    inflight,     \* saveSettings() calls awaited by their handlers, oldest first
    rendered,     \* the settings list built by the last display(): closures
    modal,        \* the open modal and its DOM state
    notice,       \* the Notice this step showed, if any (a transient toast)
    currentDate,  \* HabitCalendarView.currentDate
    grid,         \* the month grid built by the last renderCalendar()
    recent        \* history: the last one or two consecutive UI events

vars == <<now, heap, habits, entries, persisted, inflight, rendered, modal,
          notice, currentDate, grid, recent>>

DEFAULT_SETTINGS == [habits |-> <<>>, entries |-> <<>>]

DefaultColor == "#6366f1"

\* What the user can type into the name and icon fields, and pick as color.
FormInputs ==
    { [name |-> <<>>,              icon |-> <<"a">>,      color |-> DefaultColor],
      [name |-> <<"a">>,           icon |-> <<" ">>,      color |-> DefaultColor],
      [name |-> <<"a">>,           icon |-> <<" ", "a">>, color |-> DefaultColor],
      [name |-> <<" ", "b", " ">>, icon |-> <<"a">>,      color |-> DefaultColor] }

\* Days of the displayed month whose cells the user clicks.
PickDays == {1, 31}

NoModal ==
    [type |-> "none", habit |-> 0, name |-> <<>>, icon |-> <<>>, color |-> "",
     dateStr |-> <<>>, boxes |-> <<>>, year |-> 0, month |-> 0, rows |-> <<>>]

NoNotice == [kind |-> "none", name |-> <<>>]

\* Saved data that leaves the entries out.
SerializeHabitsOnly(hp, hs, es) ==
    [habits |-> [i \in 1..Len(hs) |-> hp[hs[i]]], entries |-> <<>>]

\* JSON of plugin.settings, as saveData() writes it.
Serialize(hp, hs, es) ==
    [habits |-> [i \in 1..Len(hs) |-> hp[hs[i]]], entries |-> es]

(***************************************************************************)
(* Rendering.                                                              *)
(***************************************************************************)
\* `${year}-${String(month + 1).padStart(2, '0')}-${String(day).padStart(2, '0')}`
DateStr(year, month, day) ==
    NumToString(year) \o <<"-">> \o PadStart(NumToString(month + 1), 2, "0")
        \o <<"-">> \o PadStart(NumToString(day), 2, "0")

\* A month end that is not computed.
ThirtyDays(year, month) == 30

\* new Date(year, month + 1, 0).getDate()
LastDayOfMonth(year, month) == GetDate(MakeDate(year, month + 1, 0))

\* HabitCalendarView.renderCalendar: the leading empty cells and the date
\* string of each day cell (the icons inside a cell are not modelled).
RenderCalendar(date) ==
    LET year == GetFullYear(date)
        month == GetMonth(date)
        firstDay == MakeDate(year, month, 1)
        daysInMonth == LastDayOfMonth(year, month)
        startingDayOfWeek == GetDay(firstDay)
    IN  [empty |-> startingDayOfWeek,
         days |-> [day \in 1..daysInMonth |-> DateStr(year, month, day)]]

\* HabitTrackerSettingTab.display: one row per habit, whose Edit and Delete
\* closures capture the habit and its index.
Display(hs) == [i \in 1..Len(hs) |-> [index |-> i - 1, habit |-> hs[i]]]

\* MonthlySummaryModal.onOpen: the count of one habit.
MonthlyCount(es, habitId, year, month) ==
    LET monthStart == NumToString(year) \o <<"-">>
                        \o PadStart(NumToString(month + 1), 2, "0") \o <<"-", "0", "1">>
        lastDay == LastDayOfMonth(year, month)
        monthEnd == NumToString(year) \o <<"-">>
                        \o PadStart(NumToString(month + 1), 2, "0") \o <<"-">>
                        \o PadStart(NumToString(lastDay), 2, "0")
        InMonth(e) == /\ e.habitId = habitId
                      /\ StrGeq(e.date, monthStart)
                      /\ StrLeq(e.date, monthEnd)
    IN  Len(SelectSeq(es, InMonth))

(***************************************************************************)
(* Array operations of the handlers.                                       *)
(***************************************************************************)
\* The Habit the Save handler creates when the clock reads t:
\* id: Date.now().toString().
NewHabit(t, name, icon, color) ==
    [id |-> NumToString(t), name |-> name, icon |-> icon, color |-> color]

\* Array.prototype.splice(index, 1): nothing is removed at or past the end.
Splice(arr, index) ==
    IF index < Len(arr)
    THEN SubSeq(arr, 1, index) \o SubSeq(arr, index + 2, Len(arr))
    ELSE arr

\* entries.filter(e => e.habitId !== habit.id)
RemoveHabitEntries(es, habitId) ==
    LET Keep(e) == e.habitId # habitId
    IN  SelectSeq(es, Keep)

\* An unmark that forgets the date: it removes every entry of the habit.
ToggleEntriesAnyDate(es, checked, habitId, dateStr) ==
    IF checked
    THEN Append(es, [habitId |-> habitId, date |-> dateStr])
    ELSE LET Keep(e) == e.habitId # habitId
         IN  SelectSeq(es, Keep)

\* The checkbox change handler's update of settings.entries; checked is the
\* state of the checkbox after the click.
ToggleEntries(es, checked, habitId, dateStr) ==
    IF checked
    THEN Append(es, [habitId |-> habitId, date |-> dateStr])
    ELSE LET Keep(e) == ~(e.habitId = habitId /\ e.date = dateStr)
         IN  SelectSeq(es, Keep)

\* plugin.saveSettings(): saveData(this.settings) serializes the settings
\* and hands them to the host; the handler waits for the write.
SaveSettings(queue, op, hp, hs, es) ==
    Append(queue, [op EXCEPT !.snap = Serialize(hp, hs, es)])

Op(kind, habit, name, own) ==
    [kind |-> kind, habit |-> habit, name |-> name, own |-> own,
     snap |-> DEFAULT_SETTINGS]

Disown(queue) == [i \in 1..Len(queue) |-> [queue[i] EXCEPT !.own = FALSE]]

(***************************************************************************)
(* History of the last UI events (not program state): each record keeps    *)
(* what the event found.  Two records are kept only for two consecutive    *)
(* toggles of one checkbox or two consecutive navigation clicks.           *)
(***************************************************************************)
Ev(op, box, checked, es, date) ==
    [op |-> op, box |-> box, checked |-> checked, entries |-> es, date |-> date]

IsNav(ev) == ev.op \in {"prev", "next"}

Follows(ev, last) ==
    \/ IsNav(ev) /\ IsNav(last)
    \/ ev.op = "toggle" /\ last.op = "toggle" /\ ev.box = last.box

Remember(ev) ==
    IF recent # <<>> /\ Follows(ev, recent[Len(recent)])
    THEN <<recent[Len(recent)], ev>>
    ELSE <<ev>>

(***************************************************************************)
(* Initial state: onload() has run loadSettings() on the data the host     *)
(* holds (the defaults when it holds none), the calendar view is open on   *)
(* today's month and the settings tab has been displayed.                  *)
(***************************************************************************)
InitOn(todays, stores) ==
    /\ now = 1
    /\ persisted \in stores
    /\ heap = persisted.habits
    /\ habits = [i \in 1..Len(persisted.habits) |-> i]
    /\ entries = persisted.entries
    /\ inflight = <<>>
    /\ rendered = Display(habits)
    /\ modal = NoModal
    /\ notice = NoNotice
    /\ currentDate \in todays
    /\ grid = RenderCalendar(currentDate)
    /\ recent = <<>>

(***************************************************************************)
(* Settings tab.  A modal covers the tab and the view: their buttons are   *)
(* clicked only while no modal is open.                                    *)
(***************************************************************************)
\* The host shows the tab: display().
OpenSettingTab ==
    /\ modal.type = "none"
    /\ rendered' = Display(habits)
    /\ recent' = <<>>
    /\ notice' = NoNotice
    /\ UNCHANGED <<now, heap, habits, entries, persisted, inflight, modal,
                   currentDate, grid>>

\* 'Add Habit' button: new AddHabitModal(app, plugin, null, ...).open()
ClickAddHabit ==
    /\ modal.type = "none"
    /\ modal' = [NoModal EXCEPT !.type = "form", !.color = DefaultColor]
    /\ recent' = <<>>
    /\ notice' = NoNotice
    /\ UNCHANGED <<now, heap, habits, entries, persisted, inflight, rendered,
                   currentDate, grid>>

\* 'Edit' button of row i: new AddHabitModal(app, plugin, habit, ...).open()
ClickEdit(i) ==
    /\ modal.type = "none"
    /\ i \in DOMAIN rendered
    /\ LET habit == rendered[i].habit
       IN  modal' = [NoModal EXCEPT !.type = "form", !.habit = habit,
                                    !.name = heap[habit].name,
                                    !.icon = heap[habit].icon,
                                    !.color = heap[habit].color]
    /\ recent' = <<>>
    /\ notice' = NoNotice
    /\ UNCHANGED <<now, heap, habits, entries, persisted, inflight, rendered,
                   currentDate, grid>>

\* 'Delete' button of row i, up to the await.
ClickDelete(i) ==
    /\ modal.type = "none"
    /\ i \in DOMAIN rendered
    /\ Len(inflight) < MaxInflight
    /\ LET habit == rendered[i].habit
           index == rendered[i].index
       IN  /\ habits' = Splice(habits, index)
           /\ entries' = RemoveHabitEntries(entries, heap[habit].id)
           /\ inflight' = SaveSettings(inflight, Op("delete", habit, <<>>, FALSE),
                                       heap, habits', entries')
    /\ recent' = <<>>
    /\ notice' = NoNotice
    /\ UNCHANGED <<now, heap, persisted, rendered, modal, currentDate, grid>>

(***************************************************************************)
(* AddHabitModal.                                                          *)
(***************************************************************************)
\* The user edits the fields of the form.
TypeInput ==
    /\ modal.type = "form"
    /\ \E in \in FormInputs :
          /\ modal' = [modal EXCEPT !.name = in.name, !.icon = in.icon,
                                    !.color = in.color]
          /\ modal' # modal
    /\ recent' = <<>>
    /\ notice' = NoNotice
    /\ UNCHANGED <<now, heap, habits, entries, persisted, inflight, rendered,
                   currentDate, grid>>

\* 'Save' button, up to the await.
ClickSave ==
    /\ modal.type = "form"
    /\ recent' = <<>>
    /\ LET name == Trim(modal.name)
           icon == Trim(modal.icon)
           color == modal.color
       IN  IF name = <<>>
           THEN /\ notice' = [kind |-> "Please enter a habit name", name |-> <<>>]
                /\ UNCHANGED <<now, heap, habits, entries, persisted, inflight,
                               rendered, modal, currentDate, grid>>
           ELSE IF icon = <<>>
           THEN /\ notice' = [kind |-> "Please enter an icon name", name |-> <<>>]
                /\ UNCHANGED <<now, heap, habits, entries, persisted, inflight,
                               rendered, modal, currentDate, grid>>
           ELSE IF modal.habit # 0
           THEN /\ Len(inflight) < MaxInflight
                /\ heap' = [heap EXCEPT ![modal.habit] =
                              [@ EXCEPT !.name = name, !.icon = icon, !.color = color]]
                /\ inflight' = SaveSettings(inflight, Op("form", modal.habit, name, TRUE),
                                            heap', habits, entries)
                /\ notice' = NoNotice
                /\ UNCHANGED <<now, habits, entries, persisted, rendered, modal,
                               currentDate, grid>>
           ELSE /\ Len(inflight) < MaxInflight
                /\ Len(heap) < MaxHabits
                /\ \E t \in now..MaxClock :
                      /\ now' = t
                      /\ heap' = Append(heap, NewHabit(t, name, icon, color))
                /\ habits' = Append(habits, Len(heap) + 1)
                /\ inflight' = SaveSettings(inflight, Op("form", 0, name, TRUE),
                                            heap', habits', entries)
                /\ notice' = NoNotice
                /\ UNCHANGED <<entries, persisted, rendered, modal, currentDate, grid>>

\* 'Cancel' button, or the host closing any modal (Escape, click outside).
CloseModal ==
    /\ modal.type # "none"
    /\ modal' = NoModal
    /\ inflight' = Disown(inflight)
    /\ recent' = <<>>
    /\ notice' = NoNotice
    /\ UNCHANGED <<now, heap, habits, entries, persisted, rendered, currentDate, grid>>

(***************************************************************************)
(* The host finishes the oldest write and the handler that awaited it      *)
(* continues.  Writes finish in the order they were issued.                *)
(***************************************************************************)
SaveComplete ==
    /\ inflight # <<>>
    /\ LET op == Head(inflight)
       IN  /\ persisted' = op.snap
           /\ CASE op.kind = "delete" ->
                     /\ rendered' = Display(habits)
                     /\ notice' = [kind |-> "Deleted", name |-> heap[op.habit].name]
                     /\ inflight' = Tail(inflight)
                     /\ UNCHANGED <<modal, grid>>
                [] op.kind = "form" ->
                     /\ notice' = [kind |-> IF op.habit # 0 THEN "Updated" ELSE "Added",
                                   name |-> op.name]
                     /\ modal' = IF op.own THEN NoModal ELSE modal
                     /\ inflight' = IF op.own THEN Disown(Tail(inflight))
                                    ELSE Tail(inflight)
                     /\ rendered' = Display(habits)
                     /\ UNCHANGED grid
                [] op.kind = "toggle" ->
                     /\ grid' = RenderCalendar(currentDate)
                     /\ inflight' = Tail(inflight)
                     /\ notice' = NoNotice
                     /\ UNCHANGED <<rendered, modal>>
    /\ UNCHANGED <<now, heap, habits, entries, currentDate, recent>>

(***************************************************************************)
(* Calendar view.                                                          *)
(***************************************************************************)
\* A day cell is clicked.
ClickDay(day) ==
    /\ modal.type = "none"
    /\ day \in DOMAIN grid.days
    /\ recent' = <<>>
    /\ IF Len(habits) > 0
       THEN LET dateStr == grid.days[day]
                OnDate(e) == e.date = dateStr
                existingEntries == SelectSeq(entries, OnDate)
                Checked(habit) ==
                    \E k \in DOMAIN existingEntries :
                        existingEntries[k].habitId = heap[habit].id
            IN  /\ modal' = [NoModal EXCEPT
                               !.type = "picker", !.dateStr = dateStr,
                               !.boxes = [i \in 1..Len(habits) |->
                                            [habit |-> habits[i],
                                             checked |-> Checked(habits[i])]]]
                /\ notice' = NoNotice
       ELSE /\ notice' = [kind |-> "Add some habits in settings first!", name |-> <<>>]
            /\ UNCHANGED modal
    /\ UNCHANGED <<now, heap, habits, entries, persisted, inflight, rendered,
                   currentDate, grid>>

\* The checkbox of row i of the picker changes, up to the await.
ToggleCheckbox(i) ==
    /\ modal.type = "picker"
    /\ i \in DOMAIN modal.boxes
    /\ Len(inflight) < MaxInflight
    /\ LET habit == modal.boxes[i].habit
           checked == ~modal.boxes[i].checked
       IN  /\ checked => Len(entries) < MaxEntries
           /\ modal' = [modal EXCEPT !.boxes[i].checked = checked]
           /\ entries' = ToggleEntries(entries, checked, heap[habit].id, modal.dateStr)
           /\ inflight' = SaveSettings(inflight, Op("toggle", 0, <<>>, FALSE),
                                       heap, habits, entries')
           /\ recent' = Remember(Ev("toggle", i, modal.boxes[i].checked, entries,
                                    currentDate))
    /\ notice' = NoNotice
    /\ UNCHANGED <<now, heap, habits, persisted, rendered, currentDate, grid>>

\* renderView() after a navigation click.
Navigate(op, date, lo, hi, keep) ==
    /\ modal.type = "none"
    /\ lo <= date /\ date <= hi
    /\ currentDate' = date
    /\ grid' = RenderCalendar(date)
    /\ recent' = IF keep THEN Remember(Ev(op, 0, FALSE, <<>>, currentDate)) ELSE <<>>
    /\ notice' = NoNotice
    /\ UNCHANGED <<now, heap, habits, entries, persisted, inflight, rendered,
                   modal>>

PrevMonth(lo, hi, keep) ==
    Navigate("prev", SetMonth(currentDate, GetMonth(currentDate) - 1), lo, hi, keep)

NextMonth(lo, hi, keep) ==
    Navigate("next", SetMonth(currentDate, GetMonth(currentDate) + 1), lo, hi, keep)

\* 'Summary' button: MonthlySummaryModal.onOpen.
ClickSummary ==
    /\ modal.type = "none"
    /\ LET year == GetFullYear(currentDate)
           month == GetMonth(currentDate)
       IN  modal' = [NoModal EXCEPT
                       !.type = "summary", !.year = year, !.month = month,
                       !.rows = IF Len(habits) = 0 THEN <<>>
                                ELSE [i \in 1..Len(habits) |->
                                        [habit |-> habits[i],
                                         count |-> MonthlyCount(entries,
                                                     heap[habits[i]].id, year, month)]]]
    /\ recent' = <<>>
    /\ notice' = NoNotice
    /\ UNCHANGED <<now, heap, habits, entries, persisted, inflight, rendered,
                   currentDate, grid>>

(***************************************************************************)
(* Spec: the store, the settings tab, the form, the picker and the saves,  *)
(* with the calendar view on January 2024.                                 *)
(***************************************************************************)
Todays == {MakeDate(2024, 0, 15)}

Init == InitOn(Todays, {DEFAULT_SETTINGS})

Next ==
    \/ OpenSettingTab
    \/ ClickAddHabit
    \/ \E i \in 1..MaxHabits : ClickEdit(i)
    \/ \E i \in 1..MaxHabits : ClickDelete(i)
    \/ TypeInput
    \/ ClickSave
    \/ CloseModal
    \/ SaveComplete
    \/ \E day \in PickDays : ClickDay(day)
    \/ \E i \in 1..MaxHabits : ToggleCheckbox(i)

Spec == Init /\ [][Next]_vars

(***************************************************************************)
(* SpecCal: the navigation of the calendar view, from every day of the     *)
(* NumYears years that start with FirstYear.                               *)
(***************************************************************************)
CalLo == MakeDate(FirstYear, 0, 1)
CalHi == MakeDate(FirstYear + NumYears - 1, 11, 31)
CalDays == CalLo .. CalHi

InitCal == InitOn(CalDays, {DEFAULT_SETTINGS})

NextCal ==
    \/ PrevMonth(CalLo, CalHi, TRUE)
    \/ NextMonth(CalLo, CalHi, TRUE)

SpecCal == InitCal /\ [][NextCal]_vars

(***************************************************************************)
(* SpecSum: the monthly summary, over every month of those years, on a     *)
(* store                                                                   *)
(* loaded at startup.  The loaded store holds two habits and entries on    *)
(* three consecutive days that cross a month boundary (every boundary of   *)
(* those years), or the entries of 2024-01-01, 2024-01-31 and              *)
(* 2024-02-01.                                                             *)
(***************************************************************************)
DateStrOf(t) == DateStr(GetFullYear(t), GetMonth(t), GetDate(t))

StoredHabits ==
    << NewHabit(1, <<"a">>, <<"a">>, DefaultColor),
       NewHabit(2, <<"b">>, <<"a">>, DefaultColor) >>

Entry(t, date) == [habitId |-> NumToString(t), date |-> date]

WindowEntries(t) ==
    << Entry(1, DateStrOf(t)), Entry(2, DateStrOf(t + 1)),
       Entry(1, DateStrOf(t + 1)), Entry(1, DateStrOf(t + 2)) >>

JanuaryEntries ==
    << Entry(1, DateStr(2024, 0, 1)), Entry(1, DateStr(2024, 0, 31)),
       Entry(1, DateStr(2024, 1, 1)) >>

SumStores ==
    { [habits |-> StoredHabits, entries |-> WindowEntries(t)] :
        t \in {d \in CalLo .. (CalHi - 2) : GetMonth(d) # GetMonth(d + 2)} }
        \cup { [habits |-> StoredHabits, entries |-> JanuaryEntries] }

InitSum == InitOn(Todays, SumStores)

NextSum ==
    \/ PrevMonth(CalLo, CalHi, FALSE)
    \/ NextMonth(CalLo, CalHi, FALSE)
    \/ ClickSummary
    \/ CloseModal

SpecSum == InitSum /\ [][NextSum]_vars

(***************************************************************************)
(* SpecForm: the settings tab and the add/edit form alone, from an empty   *)
(* store.                                                                  *)
(***************************************************************************)
NextForm ==
    \/ OpenSettingTab
    \/ ClickAddHabit
    \/ \E i \in 1..MaxHabits : ClickEdit(i)
    \/ TypeInput
    \/ ClickSave
    \/ CloseModal
    \/ SaveComplete

SpecForm == Init /\ [][NextForm]_vars

(***************************************************************************)
(* SpecPick: the picker alone, on a store loaded at startup.  The loaded   *)
(* store holds two habits, with different ids or with the id of one clock  *)
(* reading, and any sequence of up to MaxEntries entries of these habits   *)
(* on the days of PickDays.                                                *)
(***************************************************************************)
TwinHabits ==
    << NewHabit(1, <<"a">>, <<"a">>, DefaultColor),
       NewHabit(1, <<"b">>, <<"a">>, DefaultColor) >>

PairsOf(hs) ==
    { [habitId |-> hs[i].id, date |-> DateStr(GetFullYear(t), GetMonth(t), day)] :
        i \in DOMAIN hs, t \in Todays, day \in PickDays }

SeqsUpTo(S, n) == UNION { [1..k -> S] : k \in 0..n }

PickStores ==
    UNION { { [habits |-> hs, entries |-> es] : es \in SeqsUpTo(PairsOf(hs), MaxEntries) } :
              hs \in {StoredHabits, TwinHabits} }

InitPick == InitOn(Todays, PickStores)

NextPick ==
    \/ \E day \in PickDays : ClickDay(day)
    \/ \E i \in 1..MaxHabits : ToggleCheckbox(i)
    \/ SaveComplete
    \/ CloseModal

SpecPick == InitPick /\ [][NextPick]_vars

(***************************************************************************)
(* Properties.                                                             *)
(***************************************************************************)
HabitIds == {heap[habits[i]].id : i \in DOMAIN habits}

\* C1: every entry's habitId is the id of a habit in the habit collection.
NoDanglingEntry ==
    \A k \in DOMAIN entries : entries[k].habitId \in HabitIds

\* C2: habit ids stay pairwise distinct, and a step that creates a habit
\* gives it an id no existing habit has and makes the collection one longer.
FreshHabitIds ==
    [][ /\ \A i, j \in DOMAIN habits' :
             i # j => heap'[habits'[i]].id # heap'[habits'[j]].id
        /\ Len(heap') > Len(heap) =>
             /\ heap'[Len(heap')].id \notin HabitIds
             /\ Len(habits') = Len(habits) + 1 ]_vars

\* C3: the entry collection holds at most one entry per (habitId, date).
NoDuplicateEntry ==
    \A i, j \in DOMAIN entries : i # j => entries[i] # entries[j]

\* C4: a Delete click on habit h removes exactly h from the habit
\* collection (the others kept, in order) and exactly the entries of h.id
\* from the entry collection.
IsDeleteStep ==
    /\ Len(inflight') = Len(inflight) + 1
    /\ inflight'[Len(inflight')].kind = "delete"

DeleteRemovesExactly ==
    [][ IsDeleteStep =>
          LET h == inflight'[Len(inflight')].habit
              OtherHabit(k) == k # h
              OtherEntry(e) == e.habitId # heap[h].id
          IN  /\ habits' = SelectSeq(habits, OtherHabit)
              /\ entries' = SelectSeq(entries, OtherEntry)
              /\ \A k \in DOMAIN entries' : entries'[k].habitId # heap[h].id ]_vars

\* Two consecutive toggles of one checkbox of the picker have happened.
ToggledTwice == Len(recent) = 2 /\ recent[1].op = "toggle" /\ recent[2].op = "toggle"

ToggledPair ==
    [habitId |-> heap[modal.boxes[recent[1].box].habit].id, date |-> modal.dateStr]

\* (h, d) had an entry before the first of the two toggles.
ToggledPresent ==
    \E k \in DOMAIN recent[1].entries : recent[1].entries[k] = ToggledPair

\* The collection before the two toggles held no pair twice.
ToggledFromSet ==
    \A j, k \in DOMAIN recent[1].entries :
        j # k => recent[1].entries[j] # recent[1].entries[k]

\* C5 as stated: two successive toggles of (h, d) leave the entry
\* collection as it was, entries and order, whether (h, d) was present
\* (its box checked) or absent (its box unchecked) at first.  The
\* collections looked at hold no pair twice.
ToggleTwiceRestores ==
    (ToggledTwice /\ ToggledFromSet /\ (recent[1].checked <=> ToggledPresent)) =>
        entries = recent[1].entries

\* C5 as amended: two successive toggles of (h, d) leave the entry
\* collection as it was when (h, d) was absent and its box unchecked; from
\* a checked box the result is the collection without its (h, d) entries,
\* followed by one (h, d) entry: the entry moves to the end.
ToggleTwiceMovesToEnd ==
    ToggledTwice =>
        LET before == recent[1].entries
            Other(e) == e # ToggledPair
        IN  /\ (~recent[1].checked /\ ~ToggledPresent) => entries = before
            /\ ~recent[1].checked => entries = SelectSeq(before, Other)
            /\ recent[1].checked =>
                 entries = Append(SelectSeq(before, Other), ToggledPair)

\* Witness of C5: a present entry that was not last has moved to the end.
ToggleTwiceMoved ==
    /\ ToggledTwice
    /\ ToggledFromSet
    /\ recent[1].checked
    /\ entries # recent[1].entries
    /\ {entries[k] : k \in DOMAIN entries}
         = {recent[1].entries[k] : k \in DOMAIN recent[1].entries}

Blank(s) == \A i \in DOMAIN s : s[i] = " "

\* C6: while the form holds a name or an icon that is empty after trimming,
\* no step (a Save click among them) changes a habit or an entry or issues
\* a save; the persisted store changes only when an earlier save finishes.
InvalidSaveAborts ==
    [][ (modal.type = "form" /\ (Blank(modal.name) \/ Blank(modal.icon))) =>
          /\ heap' = heap
          /\ habits' = habits
          /\ entries' = entries
          /\ Len(inflight') <= Len(inflight)
          /\ persisted' # persisted =>
               (inflight # <<>> /\ persisted' = Head(inflight).snap) ]_vars

\* Witness of C6: Save was clicked on a form with a blank name or icon.
InvalidSaveClicked ==
    /\ modal.type = "form"
    /\ Blank(modal.name) \/ Blank(modal.icon)
    /\ notice.kind \in {"Please enter a habit name", "Please enter an icon name"}

IsConfirmation(n) == n.kind \in {"Added", "Updated", "Deleted"}

\* C7: whenever no handler awaits a save, the host holds the habits and the
\* entries of the settings; a handler continues (re-render, confirmation
\* notice, modal close) only in the step in which its own save finishes.
SavedBeforeComplete ==
    [][ /\ inflight' = <<>> =>
             /\ persisted'.habits = [i \in DOMAIN habits' |-> heap'[habits'[i]]]
             /\ persisted'.entries = entries'
        /\ (IsConfirmation(notice') \/ Len(inflight') < Len(inflight)) =>
             /\ inflight # <<>>
             /\ Len(inflight') = Len(inflight) - 1
             /\ persisted' = Head(inflight).snap ]_vars

\* Witness of C7: a deletion has completed with nothing else in flight and
\* entries left in the store.
DeleteCompleted ==
    /\ notice.kind = "Deleted"
    /\ inflight = <<>>
    /\ entries # <<>>
    /\ persisted.entries = entries

(***************************************************************************)
(* Reference calendar for the properties of the summary and the grid.      *)
(***************************************************************************)
RefIsLeap(y) == (y % 4 = 0 /\ y % 100 # 0) \/ y % 400 = 0

RefMonthLength(y, m) ==
    IF m = 1 THEN (IF RefIsLeap(y) THEN 29 ELSE 28)
    ELSE <<31, 0, 31, 30, 31, 30, 31, 31, 30, 31, 30, 31>>[m + 1]

\* Sunday-first weekday of the day d of month m (0..11) of year y.
RefWeekday(y, m, d) ==
    LET yy == IF m < 2 THEN y - 1 ELSE y
        shift == <<0, 3, 2, 5, 0, 3, 5, 1, 4, 6, 2, 4>>[m + 1]
    IN  (yy + (yy \div 4) - (yy \div 100) + (yy \div 400) + shift + d) % 7

RefTwo(n) == <<Digits[(n \div 10) + 1], Digits[(n % 10) + 1]>>

RefDateStr(y, m, d) ==
    RefTwo(y \div 100) \o RefTwo(y % 100) \o <<"-">> \o RefTwo(m + 1)
        \o <<"-">> \o RefTwo(d)

DigitOf(c) == CHOOSE i \in 0..9 : Digits[i + 1] = c

\* The year, month (1..12) and day a YYYY-MM-DD string names.
RefYearOf(s) ==
    1000 * DigitOf(s[1]) + 100 * DigitOf(s[2]) + 10 * DigitOf(s[3]) + DigitOf(s[4])
RefMonthOf(s) == 10 * DigitOf(s[6]) + DigitOf(s[7])
RefDayOf(s) == 10 * DigitOf(s[9]) + DigitOf(s[10])

RefMonthlyCount(habitId, y, m) ==
    Cardinality({k \in DOMAIN entries :
        /\ entries[k].habitId = habitId
        /\ RefYearOf(entries[k].date) = y
        /\ RefMonthOf(entries[k].date) = m + 1
        /\ RefDayOf(entries[k].date) \in 1..RefMonthLength(y, m)})

\* C8: the summary shows, for every habit, the number of its entries dated
\* from the first to the last day of the displayed month; entries on
\* 2024-01-01, 2024-01-31 and 2024-02-01 count 2 for January 2024.
SummaryCountsMonth ==
    modal.type = "summary" =>
        /\ modal.year = RefYearOf(DateStrOf(currentDate))
        /\ modal.month + 1 = RefMonthOf(DateStrOf(currentDate))
        /\ Len(modal.rows) = Len(habits)
        /\ \A i \in DOMAIN modal.rows :
              /\ modal.rows[i].habit = habits[i]
              /\ modal.rows[i].count =
                    RefMonthlyCount(heap[habits[i]].id, modal.year, modal.month)
        /\ (entries = JanuaryEntries /\ modal.year = 2024 /\ modal.month = 0) =>
              modal.rows[1].count = 2

\* Witness of C8: the January 2024 summary of the three example entries.
JanuarySummaryShown ==
    /\ modal.type = "summary"
    /\ modal.year = 2024 /\ modal.month = 0
    /\ entries = JanuaryEntries
    /\ modal.rows[1].count = 2

\* 2024-02-01 and 2024-02-29 as days since 1970-01-01.
Feb2024 == 19754 .. 19782

\* C9: the grid is the run of empty cells of the first day's Sunday-first
\* weekday index, then one cell per day 1..daysInMonth with its zero-padded
\* date string; February 2024 is 4 empty cells and 29 day cells.
GridIsMonth ==
    LET y == GetFullYear(currentDate)
        m == GetMonth(currentDate)
    IN  /\ grid.empty = RefWeekday(y, m, 1)
        /\ grid.empty \in 0..6
        /\ grid.days = [d \in 1..RefMonthLength(y, m) |-> RefDateStr(y, m, d)]
        /\ currentDate \in Feb2024 =>
             /\ grid.empty = 4
             /\ Len(grid.days) = 29
             /\ grid.days[1] = <<"2", "0", "2", "4", "-", "0", "2", "-", "0", "1">>
             /\ grid.days[29] = <<"2", "0", "2", "4", "-", "0", "2", "-", "2", "9">>

\* Witness of C9: the grid of February 2024, reached by a navigation click.
FebruaryGridShown ==
    /\ recent # <<>>
    /\ currentDate \in Feb2024
    /\ grid.empty = 4
    /\ Len(grid.days) = 29

\* The displayed month, counted in months.
MonthIndex(t) == 12 * GetFullYear(t) + GetMonth(t)

\* C10: a next click shows the month after the displayed one, a previous
\* click the month before it, and next then previous the original month.
NavigatesOneMonth ==
    /\ recent # <<>> =>
         LET last == recent[Len(recent)]
         IN  /\ last.op = "next" => MonthIndex(currentDate) = MonthIndex(last.date) + 1
             /\ last.op = "prev" => MonthIndex(currentDate) = MonthIndex(last.date) - 1
    /\ (Len(recent) = 2 /\ recent[1].op = "next" /\ recent[2].op = "prev") =>
         MonthIndex(currentDate) = MonthIndex(recent[1].date)

====
